---- MODULE Spec2Model ----
(***************************************************************************)
(* Model of the SCD41 protocol driver (src/src/scd41.rs) and of the bus    *)
(* transport it is generic over.  Every driver function is an operator     *)
(* that, given what the transport answers, yields the function's result    *)
(* and the bus events it produced; the actions call the functions on a     *)
(* transport stub whose answers are chosen nondeterministically.           *)
(*                                                                         *)
(* f32 values are modelled exactly: [sgn, m, e] stands for                 *)
(* (-1)^sgn * m * 2^e with 2^23 <= m < 2^24 (or m = 0, e = 0), and the     *)
(* arithmetic rounds to nearest, ties to even, as IEEE 754 binary32 does.  *)
(* All intermediate integers stay below 2^31.                              *)
(***************************************************************************)
EXTENDS Integers, Sequences, FiniteSets, TLC

VARIABLES
    call,     \* the driver function called last, with its argument
    ret,      \* what it returned
    bus,      \* the bus events it produced, in order
    dev,      \* the transport stub: the offset payload it was last written
    setArg,   \* the offset of the set_temperature_offset call that wrote dev
    pc,       \* main: the statement it is at
    panic,    \* main: the message of the expect that ended the process
    cycle,    \* main: the iterations of the polling loop begun
    timestamp, \* main: the local timestamp of the iteration
    is_ready, \* main: the local is_ready of the iteration
    gauges,   \* main: the four gauges, each <<>> until set, then <<value>>
    wire      \* main: the command of every write attempted since the start

mainVars == <<pc, panic, cycle, timestamp, is_ready, gauges, wire>>

vars == <<call, ret, bus, dev, setArg, pc, panic, cycle, timestamp, is_ready, gauges, wire>>

(***************************************************************************)
(* Bounds of the model.                                                    *)
(***************************************************************************)
\* thread::sleep(d) returns after d ms or later: the overshoot is 0..MaxJitter ms
MaxJitter == 1
\* the loopback scenario sweeps the offsets n / 4 degrees, n in 0..MaxSweep
MaxSweep == 700
\* main's polling loop is followed for MaxCycles iterations
MaxCycles == 3

(***************************************************************************)
(* Bytes and words.                                                        *)
(***************************************************************************)
RECURSIVE XorBits(_, _, _)
XorBits(a, b, n) ==
    IF n = 0 THEN 0
    ELSE ((a + b) % 2) + 2 * XorBits(a \div 2, b \div 2, n - 1)

\* u8 ^ u8
Xor8(a, b) == XorBits(a, b, 8)

\* u16::to_be_bytes
ToBeBytes(w) == <<w \div 256, w % 256>>

\* ((hi as u16) << 8) | (lo as u16)
BeWord(hi, lo) == hi * 256 + lo

\* buf[i] with the source's 0-based index
At(buf, i) == buf[i + 1]

(***************************************************************************)
(* sensirion_i2c::crc8::calculate, called at scd41.rs:119 and, through     *)
(* read_words_with_crc, on every word received: CRC-8, polynomial 0x31,    *)
(* initial value 0xFF, most significant bit first, no final xor.           *)
(***************************************************************************)
RECURSIVE Crc8Shift(_, _)
Crc8Shift(crc, n) ==
    IF n = 0 THEN crc
    ELSE Crc8Shift(IF crc >= 128
                   THEN Xor8((crc * 2) % 256, 49)
                   ELSE (crc * 2) % 256,
                   n - 1)

RECURSIVE Crc8From(_, _, _)
Crc8From(crc, data, i) ==
    IF i > Len(data) THEN crc
    ELSE Crc8From(Crc8Shift(Xor8(crc, data[i]), 8), data, i + 1)

Crc8Calculate(data) == Crc8From(255, data, 1)

\* crc8::validate: the first chunk of 3 whose checksum byte is wrong fails it
RECURSIVE Crc8ValidateFrom(_, _)
Crc8ValidateFrom(buf, i) ==
    IF i + 2 > Len(buf) THEN TRUE
    ELSE /\ Crc8Calculate(<<buf[i], buf[i + 1]>>) = buf[i + 2]
         /\ Crc8ValidateFrom(buf, i + 3)

Crc8Validate(buf) == Crc8ValidateFrom(buf, 1)

(***************************************************************************)
(* f32 arithmetic.                                                         *)
(***************************************************************************)
RECURSIVE BitLen(_)
BitLen(n) == IF n = 0 THEN 0 ELSE 1 + BitLen(n \div 2)

F32Zero(sgn) == [sgn |-> sgn, m |-> 0, e |-> 0]

\* The f32 nearest to (-1)^sgn * (n + s) * 2^e, where 0 <= s < 1 and
\* sticky = 1 iff s > 0; n has at least 26 bits when sticky = 1.
F32Round(sgn, n, e, sticky) ==
    IF n = 0 THEN F32Zero(sgn)
    ELSE IF n < 16777216
    THEN LET k == 24 - BitLen(n) IN [sgn |-> sgn, m |-> n * 2^k, e |-> e - k]
    ELSE LET sh   == BitLen(n) - 24
             mant == n \div 2^sh
             rem  == n % 2^sh
             half == 2^(sh - 1)
             up   == \/ rem > half
                     \/ rem = half /\ (sticky = 1 \/ mant % 2 = 1)
             r    == IF up THEN mant + 1 ELSE mant
         IN  IF r = 16777216
             THEN [sgn |-> sgn, m |-> 8388608, e |-> e + sh + 1]
             ELSE [sgn |-> sgn, m |-> r, e |-> e + sh]

\* n as f32, for 0 <= n < 2^24 (exact): `raw as f32`, and the f32 literals
F32FromInt(n) == F32Round(0, n, 0, 0)

F32Neg(a) == [sgn |-> 1 - a.sgn, m |-> a.m, e |-> a.e]

\* a * c_f32 for an integer 0 < c < 2^16: the exact product, in two limbs, rounded
F32MulInt(a, c) ==
    LET mh == a.m \div 4096
        ml == a.m % 4096
        T  == mh * c + (ml * c) \div 4096
        L  == (ml * c) % 4096
        k  == IF 30 - BitLen(T) < 12 THEN 30 - BitLen(T) ELSE 12
        n  == T * 2^k + L \div 2^(12 - k)
        st == IF L % 2^(12 - k) # 0 THEN 1 ELSE 0
    IN  F32Round(a.sgn, n, a.e + 12 - k, st)

\* long division: quotient bits are produced until the quotient has 26 bits
RECURSIVE F32DivBits(_, _, _, _, _)
F32DivBits(sgn, q, r, d, e) ==
    IF q >= 33554432 THEN F32Round(sgn, q, e, IF r # 0 THEN 1 ELSE 0)
    ELSE F32DivBits(sgn, 2 * q + (IF 2 * r >= d THEN 1 ELSE 0), (2 * r) % d, d, e - 1)

\* a / d_f32 for an integer 1 < d < 2^16
F32DivInt(a, d) ==
    IF a.m = 0 THEN F32Zero(a.sgn)
    ELSE F32DivBits(a.sgn, a.m \div d, a.m % d, d, a.e)

\* n >> k with the bits shifted out or-ed into the lowest bit
ShrSticky(n, k) ==
    IF k >= 31 THEN (IF n # 0 THEN 1 ELSE 0)
    ELSE LET q == n \div 2^k
         IN  IF n % 2^k # 0 /\ q % 2 = 0 THEN q + 1 ELSE q

\* a + b: aligned on the larger operand with three extra bits
F32Add(a, b) ==
    IF a.m = 0 THEN b
    ELSE IF b.m = 0 THEN a
    ELSE LET aBig == a.e > b.e \/ (a.e = b.e /\ a.m >= b.m)
             x  == IF aBig THEN a ELSE b
             y  == IF aBig THEN b ELSE a
             mx == x.m * 8
             my == ShrSticky(y.m * 8, x.e - y.e)
         IN  IF x.sgn = y.sgn THEN F32Round(x.sgn, mx + my, x.e - 3, 0)
             ELSE IF mx = my THEN F32Zero(0)
             ELSE F32Round(x.sgn, mx - my, x.e - 3, 0)

\* `a as u16`: truncates toward zero and saturates at 0 and 0xFFFF
F32AsU16(a) ==
    IF a.m = 0 \/ a.sgn = 1 THEN 0
    ELSE IF a.e >= 0 THEN 65535
    ELSE IF 0 - a.e > 24 THEN 0
    ELSE LET q == a.m \div 2^(0 - a.e) IN IF q > 65535 THEN 65535 ELSE q

\* the f32 n / 2^k for integers |n| < 2^24
F32Dyadic(n, k) ==
    LET f == F32FromInt(IF n < 0 THEN 0 - n ELSE n)
    IN  IF f.m = 0 THEN F32Zero(0)
        ELSE [sgn |-> IF n < 0 THEN 1 ELSE 0, m |-> f.m, e |-> f.e - k]

(***************************************************************************)
(* u64 values, as the tuple of their eight bytes, least significant first: *)
(* the model's integers are narrower than the 48 bits of a serial number.  *)
(***************************************************************************)
RECURSIVE OrBits(_, _, _)
OrBits(a, b, n) ==
    IF n = 0 THEN 0
    ELSE (IF a % 2 = 1 \/ b % 2 = 1 THEN 1 ELSE 0) + 2 * OrBits(a \div 2, b \div 2, n - 1)

RECURSIVE AndBits(_, _, _)
AndBits(a, b, n) ==
    IF n = 0 THEN 0
    ELSE (IF a % 2 = 1 /\ b % 2 = 1 THEN 1 ELSE 0) + 2 * AndBits(a \div 2, b \div 2, n - 1)

\* (byte as u64) << bits, bits a multiple of 8 below 64
U64Shl(byte, bits) ==
    LET at(i) == IF i = bits \div 8 THEN byte ELSE 0
    IN  <<at(0), at(1), at(2), at(3), at(4), at(5), at(6), at(7)>>

\* u64 | u64
U64Or(x, y) ==
    LET at(i) == OrBits(x[i], y[i], 8)
    IN  <<at(1), at(2), at(3), at(4), at(5), at(6), at(7), at(8)>>

\* the 16-bit limb k of a u64 (limb 0 is the least significant)
U64Limb(x, k) == x[2 * k + 2] * 256 + x[2 * k + 1]

(***************************************************************************)
(* The bus: what the driver does to the transport, in order.  Time is in   *)
(* ms since the function was entered; only thread::sleep takes time.       *)
(***************************************************************************)
SCD41_I2C_ADDR == 98

\* i2c.write(addr, bytes), answered ok or not
I2cWriteEv(addr, bytes, ok, at) ==
    [ev |-> "write", addr |-> addr, bytes |-> bytes, len |-> Len(bytes),
     ok |-> ok, ms |-> 0, at |-> at, until |-> at]

\* i2c.read(addr, buf) into a buffer of len bytes, answered ok with data, or not
I2cReadEv(addr, len, rd, at) ==
    [ev |-> "read", addr |-> addr, bytes |-> rd.data, len |-> len,
     ok |-> rd.ok, ms |-> 0, at |-> at, until |-> at]

\* thread::sleep(Duration::from_millis(ms)), overshooting by j ms
SleepEv(ms, j, at) ==
    [ev |-> "sleep", addr |-> 0, bytes |-> <<>>, len |-> 0,
     ok |-> TRUE, ms |-> ms, at |-> at, until |-> at + ms + j]

\* Result values
Ok(v) == [kind |-> "Ok", err |-> "None", val |-> v]
Err(e) == [kind |-> "Err", err |-> e, val |-> <<>>]
Unit == <<>>

\* sensirion_i2c::i2c::write_command_u16: one write of the command, big-endian
write_command_u16(addr, command, ok, at) ==
    I2cWriteEv(addr, ToBeBytes(command), ok, at)

\* read_words_with_crc returning the words without validating them
read_words_unchecked(addr, len, rd, at) ==
    LET ev == I2cReadEv(addr, len, rd, at)
    IN  IF len % 3 # 0 THEN [res |-> [kind |-> "Panic", err |-> "None", val |-> <<>>], bus |-> <<>>]
        ELSE IF ~rd.ok THEN [res |-> Err("I2cRead"), bus |-> <<ev>>]
        ELSE [res |-> Ok(rd.data), bus |-> <<ev>>]

\* sensirion_i2c::i2c::read_words_with_crc: asserts the buffer length, reads,
\* then validates every word's checksum
read_words_with_crc(addr, len, rd, at) ==
    LET ev == I2cReadEv(addr, len, rd, at)
    IN  IF len % 3 # 0 THEN [res |-> [kind |-> "Panic", err |-> "None", val |-> <<>>], bus |-> <<>>]
        ELSE IF ~rd.ok THEN [res |-> Err("I2cRead"), bus |-> <<ev>>]
        ELSE IF ~Crc8Validate(rd.data) THEN [res |-> Err("Crc"), bus |-> <<ev>>]
        ELSE [res |-> Ok(rd.data), bus |-> <<ev>>]

(***************************************************************************)
(* The driver's functions.  w: whether the transport accepts the write;    *)
(* j: the overshoot of the sleep; rd: the transport's answer to the read;  *)
(* t0: the time the function is entered.                                   *)
(***************************************************************************)
\* a command with no response: write, then sleep ms
CommandMs(command, ms, w, j, t0) ==
    LET wr == write_command_u16(SCD41_I2C_ADDR, command, w, t0)
        sl == SleepEv(ms, j, t0)
    IN  IF ~w THEN [res |-> Err("I2c"), bus |-> <<wr>>, t |-> t0]
        ELSE [res |-> Ok(Unit), bus |-> <<wr, sl>>, t |-> sl.until]

wakeup(w, j, t0) == CommandMs(14070, 30, w, j, t0)

start_periodic_measurement(w, j, t0) == CommandMs(8625, 1, w, j, t0)

\* stop_periodic_measurement sleeping 50 ms
stop_periodic_measurement_50ms(w, j, t0) == CommandMs(16262, 50, w, j, t0)

stop_periodic_measurement(w, j, t0) == CommandMs(16262, 500, w, j, t0)

reinit(w, j, t0) == CommandMs(13894, 30, w, j, t0)

\* clean_state with the steps' errors propagated (`?`) instead of discarded
clean_state_propagating(ws, js) ==
    LET a == wakeup(ws[1], js[1], 0)
        b == stop_periodic_measurement(ws[2], js[2], a.t)
        c == reinit(ws[3], js[3], b.t)
    IN  IF a.res.kind # "Ok" THEN a
        ELSE IF b.res.kind # "Ok" THEN [res |-> b.res, bus |-> a.bus \o b.bus, t |-> b.t]
        ELSE [res |-> c.res, bus |-> a.bus \o b.bus \o c.bus, t |-> c.t]

\* clean_state stopping the measurement before waking the sensor up
clean_state_stop_first(ws, js) ==
    LET a == stop_periodic_measurement(ws[1], js[1], 0)
        b == wakeup(ws[2], js[2], a.t)
        c == reinit(ws[3], js[3], b.t)
    IN  [res |-> Ok(Unit), bus |-> a.bus \o b.bus \o c.bus, t |-> c.t]

\* ws, js: the three writes' answers and the three sleeps' overshoots
clean_state(ws, js) ==
    LET a == wakeup(ws[1], js[1], 0)
        b == stop_periodic_measurement(ws[2], js[2], a.t)
        c == reinit(ws[3], js[3], b.t)
    IN  [res |-> Ok(Unit), bus |-> a.bus \o b.bus \o c.bus, t |-> c.t]

\* ReadCommand going on to sleep and read after a refused write
ReadCommandIgnoringWrite(command, len, w, j, rd, t0) ==
    LET wr == write_command_u16(SCD41_I2C_ADDR, command, w, t0)
        sl == SleepEv(1, j, t0)
        r  == read_words_with_crc(SCD41_I2C_ADDR, len, [ok |-> w, data |-> rd.data], sl.until)
    IN  [res |-> r.res, bus |-> <<wr, sl>> \o r.bus, t |-> sl.until]

\* a command with a response: write, sleep 1 ms, read len bytes, decode
ReadCommand(command, len, w, j, rd, t0) ==
    LET wr == write_command_u16(SCD41_I2C_ADDR, command, w, t0)
        sl == SleepEv(1, j, t0)
        r  == read_words_with_crc(SCD41_I2C_ADDR, len, rd, sl.until)
    IN  IF ~w THEN [res |-> Err("I2cWrite"), bus |-> <<wr>>, t |-> t0]
        ELSE [res |-> r.res, bus |-> <<wr, sl>> \o r.bus, t |-> sl.until]

\* read_serial taking the first six bytes received, checksums included
read_serial_packed(w, j, rd, t0) ==
    LET c == ReadCommand(13954, 9, w, j, rd, t0)
        buf == c.res.val
        serial == U64Or(U64Shl(At(buf, 0), 40),
                  U64Or(U64Shl(At(buf, 1), 32),
                  U64Or(U64Shl(At(buf, 2), 24),
                  U64Or(U64Shl(At(buf, 3), 16),
                  U64Or(U64Shl(At(buf, 4), 8),
                        U64Shl(At(buf, 5), 0))))))
    IN  IF c.res.kind # "Ok" THEN c
        ELSE [res |-> Ok(serial), bus |-> c.bus, t |-> c.t]

read_serial(w, j, rd, t0) ==
    LET c == ReadCommand(13954, 9, w, j, rd, t0)
        buf == c.res.val
        serial == U64Or(U64Shl(At(buf, 0), 40),
                  U64Or(U64Shl(At(buf, 1), 32),
                  U64Or(U64Shl(At(buf, 3), 24),
                  U64Or(U64Shl(At(buf, 4), 16),
                  U64Or(U64Shl(At(buf, 6), 8),
                        U64Shl(At(buf, 7), 0))))))
    IN  IF c.res.kind # "Ok" THEN c
        ELSE [res |-> Ok(serial), bus |-> c.bus, t |-> c.t]

\* get_data_ready_status testing the whole status word
get_data_ready_status_unmasked(w, j, rd, t0) ==
    LET c == ReadCommand(58552, 3, w, j, rd, t0)
        buf == c.res.val
        status == BeWord(At(buf, 0), At(buf, 1))
    IN  IF c.res.kind # "Ok" THEN c
        ELSE [res |-> Ok(status # 0), bus |-> c.bus, t |-> c.t]

get_data_ready_status(w, j, rd, t0) ==
    LET c == ReadCommand(58552, 3, w, j, rd, t0)
        buf == c.res.val
        status == BeWord(At(buf, 0), At(buf, 1))
    IN  IF c.res.kind # "Ok" THEN c
        ELSE [res |-> Ok(AndBits(status, 2047, 16) # 0), bus |-> c.bus, t |-> c.t]

\* the temperature without the - 45
TemperatureOfUnshifted(raw) == F32DivInt(F32MulInt(F32FromInt(raw), 175), 65535)

\* raw as f32 * 175_f32 / 65535_f32 - 45_f32
TemperatureOf(raw) ==
    F32Add(F32DivInt(F32MulInt(F32FromInt(raw), 175), 65535), F32Neg(F32FromInt(45)))

\* raw as f32 * 100_f32 / 65535_f32
HumidityOf(raw) == F32DivInt(F32MulInt(F32FromInt(raw), 100), 65535)

\* read_measurement taking the words at bytes (0,1), (2,3), (4,5)
read_measurement_packed(w, j, rd, t0) ==
    LET c == ReadCommand(60421, 9, w, j, rd, t0)
        buf == c.res.val
        raw_co2 == BeWord(At(buf, 0), At(buf, 1))
        raw_temperature == BeWord(At(buf, 2), At(buf, 3))
        raw_humidity == BeWord(At(buf, 4), At(buf, 5))
    IN  IF c.res.kind # "Ok" THEN c
        ELSE [res |-> Ok([co2 |-> raw_co2,
                          temperature |-> TemperatureOf(raw_temperature),
                          humidity |-> HumidityOf(raw_humidity)]),
              bus |-> c.bus, t |-> c.t]

read_measurement(w, j, rd, t0) ==
    LET c == ReadCommand(60421, 9, w, j, rd, t0)
        buf == c.res.val
        raw_co2 == BeWord(At(buf, 0), At(buf, 1))
        raw_temperature == BeWord(At(buf, 3), At(buf, 4))
        raw_humidity == BeWord(At(buf, 6), At(buf, 7))
    IN  IF c.res.kind # "Ok" THEN c
        ELSE [res |-> Ok([co2 |-> raw_co2,
                          temperature |-> TemperatureOf(raw_temperature),
                          humidity |-> HumidityOf(raw_humidity)]),
              bus |-> c.bus, t |-> c.t]

\* the offset scaled as the humidity is
OffsetOfPercent(raw) == F32DivInt(F32MulInt(F32FromInt(raw), 100), 65535)

\* offset as f32 * 175_f32 / 65535_f32
OffsetOf(raw) == F32DivInt(F32MulInt(F32FromInt(raw), 175), 65535)

\* get_temperature_offset reading into a 9-byte buffer
get_temperature_offset_9bytes(w, j, rd, t0) ==
    LET c == ReadCommand(8984, 9, w, j, rd, t0)
        buf == c.res.val
        offset == BeWord(At(buf, 0), At(buf, 1))
    IN  IF c.res.kind # "Ok" THEN c
        ELSE [res |-> Ok(OffsetOf(offset)), bus |-> c.bus, t |-> c.t]

get_temperature_offset(w, j, rd, t0) ==
    LET c == ReadCommand(8984, 3, w, j, rd, t0)
        buf == c.res.val
        offset == BeWord(At(buf, 0), At(buf, 1))
    IN  IF c.res.kind # "Ok" THEN c
        ELSE [res |-> Ok(OffsetOf(offset)), bus |-> c.bus, t |-> c.t]

\* the conversion wrapping modulo 2^16 instead of saturating
RawOffsetOfWrapping(offset) ==
    LET y == F32DivInt(F32MulInt(offset, 65535), 175)
        q == IF y.m = 0 \/ 0 - y.e > 24 THEN 0
             ELSE IF y.e >= 0 THEN y.m * 2^y.e
             ELSE y.m \div 2^(0 - y.e)
    IN  IF y.sgn = 1 THEN (65536 - (q % 65536)) % 65536 ELSE q % 65536

\* (offset * 65535_f32 / 175_f32) as u16
RawOffsetOf(offset) == F32AsU16(F32DivInt(F32MulInt(offset, 65535), 175))

\* set_temperature_offset with the checksum taken over command and data
set_temperature_offset_crc4(offset, w, t0) ==
    LET data == ToBeBytes(RawOffsetOf(offset))
        buf  == ToBeBytes(9245) \o data \o <<Crc8Calculate(ToBeBytes(9245) \o data)>>
        wr   == I2cWriteEv(SCD41_I2C_ADDR, buf, w, t0)
    IN  IF ~w THEN [res |-> Err("I2cWrite"), bus |-> <<wr>>, t |-> t0]
        ELSE [res |-> Ok(Unit), bus |-> <<wr>>, t |-> t0]

set_temperature_offset(offset, w, t0) ==
    LET data == ToBeBytes(RawOffsetOf(offset))
        buf  == ToBeBytes(9245) \o data \o <<Crc8Calculate(data)>>
        wr   == I2cWriteEv(SCD41_I2C_ADDR, buf, w, t0)
    IN  IF ~w THEN [res |-> Err("I2cWrite"), bus |-> <<wr>>, t |-> t0]
        ELSE [res |-> Ok(Unit), bus |-> <<wr>>, t |-> t0]

(***************************************************************************)
(* The transport stub.  It accepts or refuses each write, answers each     *)
(* read with bytes of its choice or fails it, and keeps the data word and  *)
(* checksum of the last set-temperature-offset payload it accepted.        *)
(***************************************************************************)
Jitters == 0..MaxJitter

\* the words the stub answers with
Words1 == {0, 1, 2047, 2048, 32768, 65535, 48879}
Words3 == {0, 48879, 65535}

\* a word on the wire: its two bytes, then its checksum, corrupted (one bit
\* flipped) when bad
WireWord(w, bad) ==
    LET c == Crc8Calculate(ToBeBytes(w))
    IN  ToBeBytes(w) \o <<IF bad THEN Xor8(c, 1) ELSE c>>

\* which words of a three-word response carry a bad checksum
BadSets == {{}, {1}, {2}, {3}, {1, 2, 3}}

\* a failed read leaves the zeroed buffer; a good one fills it
Answers1 ==
    {[ok |-> FALSE, data |-> <<0, 0, 0>>]}
    \cup {[ok |-> TRUE, data |-> WireWord(w, bad)] : w \in Words1, bad \in BOOLEAN}

\* every triple of words with good checksums, and the triples <<w, w, w>> with
\* the checksums of BadSets corrupted
Answers3 ==
    {[ok |-> FALSE, data |-> <<0, 0, 0, 0, 0, 0, 0, 0, 0>>]}
    \cup {[ok |-> TRUE,
           data |-> WireWord(a, FALSE) \o WireWord(b, FALSE) \o WireWord(c, FALSE)] :
          a \in Words3, b \in Words3, c \in Words3}
    \cup {[ok |-> TRUE,
           data |-> WireWord(w, 1 \in bs) \o WireWord(w, 2 \in bs) \o WireWord(w, 3 \in bs)] :
          w \in Words3, bs \in BadSets}

\* the stub's answer with the offset it was written (the loopback)
Loopback == IF dev = <<>> THEN {} ELSE {[ok |-> TRUE, data |-> dev]}

\* the offsets the driver is called with: 4.0, 0.5, -1.0, 200.0,
\* 147.13511657714844 (whose scaled value rounds up to an integer), 0.0,
\* 175.0 and the next f32 above 175.0
Offsets == {F32Dyadic(16, 2), F32Dyadic(1, 1), F32Dyadic(-1, 0), F32Dyadic(200, 0),
            F32Dyadic(9642647, 16), F32Dyadic(0, 0), F32Dyadic(175, 0),
            F32Dyadic(11468801, 16)}

\* what the stub keeps of a write it accepted
IsOffsetPayload(ev) ==
    /\ ev.ev = "write" /\ ev.ok /\ ev.len = 5
    /\ SubSeq(ev.bytes, 1, 2) = ToBeBytes(9245)

RECURSIVE StubAfter(_, _, _)
StubAfter(d, events, i) ==
    IF i > Len(events) THEN d
    ELSE StubAfter(IF IsOffsetPayload(events[i]) THEN SubSeq(events[i].bytes, 3, 5) ELSE d,
                   events, i + 1)

\* the offset of the call that wrote the stub's payload
SetArgAfter(old, arg, events) == IF StubAfter(<<>>, events, 1) # <<>> THEN arg ELSE old

\* the stub during a call that writes one command and reads: it refuses the
\* write (the function returns, and neither sleeps nor reads), or accepts it,
\* the sleep overshoots by j and the read is answered rd
Refused == [w |-> FALSE, j |-> 0, rd |-> [ok |-> FALSE, data |-> <<>>]]
Stub1 == {Refused} \cup {[w |-> TRUE, j |-> j, rd |-> rd] : j \in Jitters, rd \in Answers1}
Stub3 == {Refused} \cup {[w |-> TRUE, j |-> j, rd |-> rd] : j \in Jitters, rd \in Answers3}
StubLoopback == {[w |-> TRUE, j |-> j, rd |-> rd] : j \in Jitters, rd \in Loopback}

Init ==
    /\ call = [op |-> "none", arg |-> <<>>]
    /\ ret = [kind |-> "None", err |-> "None", val |-> <<>>]
    /\ bus = <<>>
    /\ dev = <<>>
    /\ setArg = <<>>
    /\ pc = "init_prometheus"
    /\ panic = ""
    /\ cycle = 0
    /\ timestamp = 0
    /\ is_ready = [kind |-> "None", err |-> "None", val |-> <<>>]
    /\ gauges = [co2_ppm |-> <<>>, temperature_celsius |-> <<>>, humidity_rh |-> <<>>,
                 last_measured_timestamp_ms |-> <<>>]
    /\ wire = <<>>

(***************************************************************************)
(* What each driver function can do: its runs over all the stub's          *)
(* behaviours.                                                             *)
(***************************************************************************)
CleanStateRuns ==
    {clean_state(<<w1, w2, w3>>, <<j1, j2, j3>>) :
        w1 \in BOOLEAN, w2 \in BOOLEAN, w3 \in BOOLEAN,
        j1 \in Jitters, j2 \in Jitters, j3 \in Jitters}

WakeupRuns == {wakeup(w, j, 0) : w \in BOOLEAN, j \in Jitters}

StartPeriodicMeasurementRuns ==
    {start_periodic_measurement(w, j, 0) : w \in BOOLEAN, j \in Jitters}

StopPeriodicMeasurementRuns ==
    {stop_periodic_measurement(w, j, 0) : w \in BOOLEAN, j \in Jitters}

ReinitRuns == {reinit(w, j, 0) : w \in BOOLEAN, j \in Jitters}

ReadSerialRuns == {read_serial(s.w, s.j, s.rd, 0) : s \in Stub3}

GetDataReadyStatusRuns == {get_data_ready_status(s.w, s.j, s.rd, 0) : s \in Stub1}

ReadMeasurementRuns == {read_measurement(s.w, s.j, s.rd, 0) : s \in Stub3}

GetTemperatureOffsetRuns == {get_temperature_offset(s.w, s.j, s.rd, 0) : s \in Stub1}

\* the stub answers the offset it was written (the loopback)
GetTemperatureOffsetLoopbackRuns ==
    {get_temperature_offset(s.w, s.j, s.rd, 0) : s \in StubLoopback}

SetTemperatureOffsetRuns ==
    {[arg |-> x, run |-> set_temperature_offset(x, w, 0)] : x \in Offsets, w \in BOOLEAN}

CallCleanState ==
    \E r \in CleanStateRuns :
        /\ call' = [op |-> "clean_state", arg |-> <<>>]
        /\ ret' = r.res
        /\ bus' = r.bus
        /\ dev' = StubAfter(dev, r.bus, 1)
        /\ setArg' = SetArgAfter(setArg, <<>>, r.bus)
        /\ UNCHANGED mainVars

CallWakeup ==
    \E r \in WakeupRuns :
        /\ call' = [op |-> "wakeup", arg |-> <<>>]
        /\ ret' = r.res
        /\ bus' = r.bus
        /\ dev' = StubAfter(dev, r.bus, 1)
        /\ setArg' = SetArgAfter(setArg, <<>>, r.bus)
        /\ UNCHANGED mainVars

CallStartPeriodicMeasurement ==
    \E r \in StartPeriodicMeasurementRuns :
        /\ call' = [op |-> "start_periodic_measurement", arg |-> <<>>]
        /\ ret' = r.res
        /\ bus' = r.bus
        /\ dev' = StubAfter(dev, r.bus, 1)
        /\ setArg' = SetArgAfter(setArg, <<>>, r.bus)
        /\ UNCHANGED mainVars

CallStopPeriodicMeasurement ==
    \E r \in StopPeriodicMeasurementRuns :
        /\ call' = [op |-> "stop_periodic_measurement", arg |-> <<>>]
        /\ ret' = r.res
        /\ bus' = r.bus
        /\ dev' = StubAfter(dev, r.bus, 1)
        /\ setArg' = SetArgAfter(setArg, <<>>, r.bus)
        /\ UNCHANGED mainVars

CallReinit ==
    \E r \in ReinitRuns :
        /\ call' = [op |-> "reinit", arg |-> <<>>]
        /\ ret' = r.res
        /\ bus' = r.bus
        /\ dev' = StubAfter(dev, r.bus, 1)
        /\ setArg' = SetArgAfter(setArg, <<>>, r.bus)
        /\ UNCHANGED mainVars

CallReadSerial ==
    \E r \in ReadSerialRuns :
        /\ call' = [op |-> "read_serial", arg |-> <<>>]
        /\ ret' = r.res
        /\ bus' = r.bus
        /\ dev' = StubAfter(dev, r.bus, 1)
        /\ setArg' = SetArgAfter(setArg, <<>>, r.bus)
        /\ UNCHANGED mainVars

CallGetDataReadyStatus ==
    \E r \in GetDataReadyStatusRuns :
        /\ call' = [op |-> "get_data_ready_status", arg |-> <<>>]
        /\ ret' = r.res
        /\ bus' = r.bus
        /\ dev' = StubAfter(dev, r.bus, 1)
        /\ setArg' = SetArgAfter(setArg, <<>>, r.bus)
        /\ UNCHANGED mainVars

CallReadMeasurement ==
    \E r \in ReadMeasurementRuns :
        /\ call' = [op |-> "read_measurement", arg |-> <<>>]
        /\ ret' = r.res
        /\ bus' = r.bus
        /\ dev' = StubAfter(dev, r.bus, 1)
        /\ setArg' = SetArgAfter(setArg, <<>>, r.bus)
        /\ UNCHANGED mainVars

CallGetTemperatureOffset ==
    \E r \in GetTemperatureOffsetRuns \cup GetTemperatureOffsetLoopbackRuns :
        /\ call' = [op |-> "get_temperature_offset", arg |-> <<>>]
        /\ ret' = r.res
        /\ bus' = r.bus
        /\ dev' = StubAfter(dev, r.bus, 1)
        /\ setArg' = SetArgAfter(setArg, <<>>, r.bus)
        /\ UNCHANGED mainVars

CallSetTemperatureOffset ==
    \E c \in SetTemperatureOffsetRuns :
        /\ call' = [op |-> "set_temperature_offset", arg |-> c.arg]
        /\ ret' = c.run.res
        /\ bus' = c.run.bus
        /\ dev' = StubAfter(dev, c.run.bus, 1)
        /\ setArg' = SetArgAfter(setArg, c.arg, c.run.bus)
        /\ UNCHANGED mainVars

Next ==
    \/ CallCleanState
    \/ CallWakeup
    \/ CallStartPeriodicMeasurement
    \/ CallStopPeriodicMeasurement
    \/ CallReinit
    \/ CallReadSerial
    \/ CallGetDataReadyStatus
    \/ CallReadMeasurement
    \/ CallGetTemperatureOffset
    \/ CallSetTemperatureOffset

Spec == Init /\ [][Next]_vars

(***************************************************************************)
(* The loopback scenario: on a fresh stub that refuses nothing, one        *)
(* set_temperature_offset(x), then get_temperature_offset answered with    *)
(* what was written.                                                       *)
(***************************************************************************)
SweepOffsets == {F32Dyadic(n, 2) : n \in 0..MaxSweep}

SweepRuns == {[arg |-> x, run |-> set_temperature_offset(x, TRUE, 0)] : x \in SweepOffsets}

LoopSet ==
    /\ call.op = "none"
    /\ \E c \in SweepRuns :
        /\ call' = [op |-> "set_temperature_offset", arg |-> c.arg]
        /\ ret' = c.run.res
        /\ bus' = c.run.bus
        /\ dev' = StubAfter(dev, c.run.bus, 1)
        /\ setArg' = SetArgAfter(setArg, c.arg, c.run.bus)
        /\ UNCHANGED mainVars

LoopGet ==
    /\ call.op = "set_temperature_offset"
    /\ \E r \in GetTemperatureOffsetLoopbackRuns :
        /\ call' = [op |-> "get_temperature_offset", arg |-> <<>>]
        /\ ret' = r.res
        /\ bus' = r.bus
        /\ dev' = StubAfter(dev, r.bus, 1)
        /\ setArg' = SetArgAfter(setArg, <<>>, r.bus)
        /\ UNCHANGED mainVars

LoopNext == LoopSet \/ LoopGet

SpecLoop == Init /\ [][LoopNext]_vars

(***************************************************************************)
(* The program: main opens the exporter and the transport, conditions the  *)
(* sensor, reads its serial number, starts the periodic measurement and    *)
(* polls.  pc names the statement main is at; "panicked" is the process    *)
(* ended by an expect.                                                     *)
(***************************************************************************)
\* the commands of the writes among events, in order
RECURSIVE WireOf(_, _)
WireOf(events, i) ==
    IF i > Len(events) THEN <<>>
    ELSE (IF events[i].ev = "write"
          THEN <<BeWord(events[i].bytes[1], events[i].bytes[2])>> ELSE <<>>)
         \o WireOf(events, i + 1)

\* what main's own sleeps put on the timeline
Sleep5Runs == {<<SleepEv(5000, j, 0)>> : j \in Jitters}
Sleep1Runs == {<<SleepEv(1000, j, 0)>> : j \in Jitters}

\* SystemTime::now() in iteration c as ms since the epoch, or the default 0
\* when the clock is before the epoch
Timestamps(c) == {0, 1000 * c}

\* what a step of main leaves as it is
Locals == <<cycle, timestamp, is_ready, gauges>>

\* init_prometheus(&args.server).expect(..)
MainInitPrometheus ==
    /\ pc = "init_prometheus"
    /\ \E ok \in BOOLEAN :
        /\ call' = [op |-> "init_prometheus", arg |-> <<>>]
        /\ ret' = IF ok THEN Ok(Unit) ELSE Err("Install")
        /\ pc' = IF ok THEN "init_raspi" ELSE "panicked"
        /\ panic' = IF ok THEN panic ELSE "failed to install prometheus exporter"
    /\ bus' = <<>>
    /\ UNCHANGED <<dev, setArg, wire, Locals>>

\* raspi::init_raspi().expect(..)
MainInitRaspi ==
    /\ pc = "init_raspi"
    /\ \E ok \in BOOLEAN :
        /\ call' = [op |-> "init_raspi", arg |-> <<>>]
        /\ ret' = IF ok THEN Ok(Unit) ELSE Err("I2cOpen")
        /\ pc' = IF ok THEN "clean_state" ELSE "panicked"
        /\ panic' = IF ok THEN panic ELSE "failed to init i2c"
    /\ bus' = <<>>
    /\ UNCHANGED <<dev, setArg, wire, Locals>>

\* scd41::clean_state(&mut i2c)
MainCleanState ==
    /\ pc = "clean_state"
    /\ \E r \in CleanStateRuns :
        /\ call' = [op |-> "clean_state", arg |-> <<>>]
        /\ ret' = r.res
        /\ bus' = r.bus
        /\ wire' = wire \o WireOf(r.bus, 1)
    /\ pc' = "read_serial"
    /\ UNCHANGED <<dev, setArg, panic, Locals>>

\* scd41::read_serial(&mut i2c).expect(..)
MainReadSerial ==
    /\ pc = "read_serial"
    /\ \E r \in ReadSerialRuns :
        /\ call' = [op |-> "read_serial", arg |-> <<>>]
        /\ ret' = r.res
        /\ bus' = r.bus
        /\ wire' = wire \o WireOf(r.bus, 1)
        /\ pc' = IF r.res.kind = "Ok" THEN "start_periodic_measurement" ELSE "panicked"
        /\ panic' = IF r.res.kind = "Ok" THEN panic ELSE "failed to read serial from scd41"
    /\ UNCHANGED <<dev, setArg, Locals>>

\* scd41::start_periodic_measurement(&mut i2c).expect(..)
MainStartPeriodicMeasurement ==
    /\ pc = "start_periodic_measurement"
    /\ \E r \in StartPeriodicMeasurementRuns :
        /\ call' = [op |-> "start_periodic_measurement", arg |-> <<>>]
        /\ ret' = r.res
        /\ bus' = r.bus
        /\ wire' = wire \o WireOf(r.bus, 1)
        /\ pc' = IF r.res.kind = "Ok" THEN "sleep5" ELSE "panicked"
        /\ panic' = IF r.res.kind = "Ok" THEN panic ELSE "failed to start scd41"
    /\ UNCHANGED <<dev, setArg, Locals>>

\* thread::sleep(Duration::from_secs(5)), then the four gauges are made
MainSleep5 ==
    /\ pc = "sleep5"
    /\ \E b \in Sleep5Runs : bus' = b
    /\ call' = [op |-> "sleep", arg |-> <<>>]
    /\ ret' = [kind |-> "None", err |-> "None", val |-> <<>>]
    /\ pc' = "poll_sleep"
    /\ UNCHANGED <<dev, setArg, panic, wire, Locals>>

\* the top of the loop also waking the sensor
PollSleepWaking ==
    /\ pc = "poll_sleep"
    /\ cycle < MaxCycles
    /\ \E r \in WakeupRuns :
        /\ bus' = r.bus
        /\ wire' = wire \o WireOf(r.bus, 1)
    /\ \E t \in Timestamps(cycle + 1) : timestamp' = t
    /\ call' = [op |-> "sleep", arg |-> <<>>]
    /\ ret' = [kind |-> "None", err |-> "None", val |-> <<>>]
    /\ cycle' = cycle + 1
    /\ pc' = "poll_ready"
    /\ UNCHANGED <<dev, setArg, panic, is_ready, gauges>>

\* the top of the loop: thread::sleep(Duration::from_secs(1)) and the timestamp
PollSleep ==
    /\ pc = "poll_sleep"
    /\ cycle < MaxCycles
    /\ \E b \in Sleep1Runs : bus' = b
    /\ \E t \in Timestamps(cycle + 1) : timestamp' = t
    /\ call' = [op |-> "sleep", arg |-> <<>>]
    /\ ret' = [kind |-> "None", err |-> "None", val |-> <<>>]
    /\ cycle' = cycle + 1
    /\ pc' = "poll_ready"
    /\ UNCHANGED <<dev, setArg, panic, wire, is_ready, gauges>>

\* the query unwrapped without the is_err test
PollReadyUnwrapping ==
    /\ pc = "poll_ready"
    /\ \E r \in GetDataReadyStatusRuns :
        /\ call' = [op |-> "get_data_ready_status", arg |-> <<>>]
        /\ ret' = r.res
        /\ bus' = r.bus
        /\ wire' = wire \o WireOf(r.bus, 1)
        /\ is_ready' = r.res
        /\ pc' = IF r.res.kind # "Ok" THEN "panicked"
                 ELSE IF r.res.val THEN "poll_measure" ELSE "poll_sleep"
        /\ panic' = IF r.res.kind # "Ok" THEN "called Result::unwrap() on an Err value"
                    ELSE panic
    /\ UNCHANGED <<dev, setArg, cycle, timestamp, gauges>>

\* the query going on to the measurement whatever the flag
PollReadyIgnoringFlag ==
    /\ pc = "poll_ready"
    /\ \E r \in GetDataReadyStatusRuns :
        /\ call' = [op |-> "get_data_ready_status", arg |-> <<>>]
        /\ ret' = r.res
        /\ bus' = r.bus
        /\ wire' = wire \o WireOf(r.bus, 1)
        /\ is_ready' = r.res
        /\ pc' = IF r.res.kind = "Ok" THEN "poll_measure" ELSE "poll_sleep"
    /\ UNCHANGED <<dev, setArg, panic, cycle, timestamp, gauges>>

\* scd41::get_data_ready_status(&mut i2c); continue on an error or on false
PollReady ==
    /\ pc = "poll_ready"
    /\ \E r \in GetDataReadyStatusRuns :
        /\ call' = [op |-> "get_data_ready_status", arg |-> <<>>]
        /\ ret' = r.res
        /\ bus' = r.bus
        /\ wire' = wire \o WireOf(r.bus, 1)
        /\ is_ready' = r.res
        /\ pc' = IF r.res.kind = "Ok" /\ r.res.val THEN "poll_measure" ELSE "poll_sleep"
    /\ UNCHANGED <<dev, setArg, panic, cycle, timestamp, gauges>>

\* the four gauges after a measurement m of an iteration stamped ts
Published(m, ts) ==
    [co2_ppm |-> <<m.co2>>, temperature_celsius |-> <<m.temperature>>,
     humidity_rh |-> <<m.humidity>>, last_measured_timestamp_ms |-> <<ts>>]

\* the measurement leaving the loop on an error
PollMeasureBreaking ==
    /\ pc = "poll_measure"
    /\ \E r \in ReadMeasurementRuns :
        /\ call' = [op |-> "read_measurement", arg |-> <<>>]
        /\ ret' = r.res
        /\ bus' = r.bus
        /\ wire' = wire \o WireOf(r.bus, 1)
        /\ gauges' = IF r.res.kind = "Ok" THEN Published(r.res.val, timestamp) ELSE gauges
        /\ pc' = IF r.res.kind = "Ok" THEN "poll_sleep" ELSE "returned"
    /\ UNCHANGED <<dev, setArg, panic, cycle, timestamp, is_ready>>

\* the measurement stamping last_measured on an error too
PollMeasureStamping ==
    /\ pc = "poll_measure"
    /\ \E r \in ReadMeasurementRuns :
        /\ call' = [op |-> "read_measurement", arg |-> <<>>]
        /\ ret' = r.res
        /\ bus' = r.bus
        /\ wire' = wire \o WireOf(r.bus, 1)
        /\ gauges' = IF r.res.kind = "Ok" THEN Published(r.res.val, timestamp)
                     ELSE [gauges EXCEPT !.last_measured_timestamp_ms = <<timestamp>>]
    /\ pc' = "poll_sleep"
    /\ UNCHANGED <<dev, setArg, panic, cycle, timestamp, is_ready>>

\* scd41::read_measurement(&mut i2c); the gauges are set on Ok, a warning is
\* logged on Err
PollMeasure ==
    /\ pc = "poll_measure"
    /\ \E r \in ReadMeasurementRuns :
        /\ call' = [op |-> "read_measurement", arg |-> <<>>]
        /\ ret' = r.res
        /\ bus' = r.bus
        /\ wire' = wire \o WireOf(r.bus, 1)
        /\ gauges' = IF r.res.kind = "Ok" THEN Published(r.res.val, timestamp) ELSE gauges
    /\ pc' = "poll_sleep"
    /\ UNCHANGED <<dev, setArg, panic, cycle, timestamp, is_ready>>

MainNext ==
    \/ MainInitPrometheus
    \/ MainInitRaspi
    \/ MainCleanState
    \/ MainReadSerial
    \/ MainStartPeriodicMeasurement
    \/ MainSleep5
    \/ PollSleep
    \/ PollReady
    \/ PollMeasure

SpecMain == Init /\ [][MainNext]_vars

(***************************************************************************)
(* Properties.                                                             *)
(***************************************************************************)
Writes == SelectSeq(bus, LAMBDA ev : ev.ev = "write")
Reads == SelectSeq(bus, LAMBDA ev : ev.ev = "read")
Sleeps == SelectSeq(bus, LAMBDA ev : ev.ev = "sleep")

\* the command a write event carries
CommandOf(ev) == BeWord(ev.bytes[1], ev.bytes[2])

ReadOps == {"read_serial", "get_data_ready_status", "read_measurement",
            "get_temperature_offset"}

\* C1: clean_state returns normally, with no error, whatever the transport
\* answers to its three writes, a transport that refuses them all included.
C1_CleanStateNeverFails ==
    call.op = "clean_state" => ret.kind = "Ok" /\ ret.err = "None"

C1_Witness ==
    /\ call.op = "clean_state"
    /\ Len(bus) = 3
    /\ \A i \in 1..3 : bus[i].ev = "write" /\ ~bus[i].ok
    /\ ret.kind = "Ok"

\* C2: one clean_state writes exactly three commands, wakeup (0x36F6), stop
\* periodic measurement (0x3F86), reinitialize (0x3646), in this order, also
\* when earlier writes are refused.
C2_CleanStateThreeWrites ==
    call.op = "clean_state" =>
        /\ Len(Writes) = 3
        /\ Writes[1].bytes = <<54, 246>>
        /\ Writes[2].bytes = <<63, 134>>
        /\ Writes[3].bytes = <<54, 70>>
        /\ \A i \in 1..3 : Writes[i].addr = 98
        /\ Reads = <<>>

C2_Witness ==
    /\ call.op = "clean_state"
    /\ Len(Writes) = 3
    /\ ~Writes[1].ok /\ ~Writes[2].ok /\ Writes[3].ok
    /\ Writes[3].bytes = <<54, 70>>

\* C3: when the command write of read_serial, get_data_ready_status,
\* read_measurement or get_temperature_offset is refused, the function returns
\* the write error (not the read error), reads nothing and returns no value.
C3_WriteErrorNoRead ==
    (call.op \in ReadOps /\ ~bus[1].ok) =>
        /\ ret.kind = "Err"
        /\ ret.err = "I2cWrite"
        /\ ret.val = <<>>
        /\ Reads = <<>>
        /\ Len(bus) = 1

C3_Witness ==
    /\ call.op = "read_measurement"
    /\ bus[1].ev = "write" /\ ~bus[1].ok
    /\ ret.err = "I2cWrite"

\* the delay after each command, in ms
DelayMs(command) ==
    CASE command = 14070 -> 30
      [] command = 8625 -> 1
      [] command = 16262 -> 500
      [] command = 13894 -> 30
      [] command = 13954 -> 1
      [] command = 58552 -> 1
      [] command = 60421 -> 1
      [] command = 8984 -> 1
      [] OTHER -> 0

\* C4: every function writes its command, then sleeps, then (some) reads: an
\* accepted command other than set temperature offset is followed at once by a
\* sleep that ends no sooner than the command's delay after the write, a read
\* comes only right after the sleep of its own command, and
\* set_temperature_offset does not sleep.
C4_DelayBeforeRead ==
    /\ bus # <<>> => bus[1].ev = "write"
    /\ \A i \in 1..Len(bus) :
        /\ (bus[i].ev = "write" /\ bus[i].ok /\ bus[i].len = 2) =>
              /\ i < Len(bus)
              /\ bus[i + 1].ev = "sleep"
              /\ bus[i + 1].at = bus[i].at
              /\ DelayMs(CommandOf(bus[i])) > 0
              /\ bus[i + 1].until - bus[i].at >= DelayMs(CommandOf(bus[i]))
        /\ bus[i].ev = "sleep" =>
              i > 1 /\ bus[i - 1].ev = "write" /\ bus[i - 1].ok
        /\ bus[i].ev = "read" =>
              /\ i > 2
              /\ bus[i - 1].ev = "sleep"
              /\ bus[i - 2].ev = "write" /\ bus[i - 2].ok
              /\ bus[i].at - bus[i - 2].at >= DelayMs(CommandOf(bus[i - 2]))
              /\ DelayMs(CommandOf(bus[i - 2])) > 0
    /\ call.op = "set_temperature_offset" => Sleeps = <<>> /\ Len(bus) = 1

C4_Witness ==
    /\ call.op = "clean_state"
    /\ Len(bus) = 6
    /\ bus[4].until - bus[3].at = 500
    /\ bus[6].until = 560

\* the read event of a function that got as far as reading
HasRead == Len(bus) = 3 /\ bus[3].ev = "read"
Received == bus[3].bytes
\* the word received at bytes (i, i + 1) of the response, 0-based
WordAt(i) == Received[i + 1] * 256 + Received[i + 2]
\* whether the byte after that word is its checksum
GoodCrcAt(i) == Received[i + 3] = Crc8Calculate(<<Received[i + 1], Received[i + 2]>>)

\* C5: for every status word received with a valid checksum,
\* get_data_ready_status returns true exactly when status & 0x07FF is not 0:
\* true for 0x0001, false for 0x0000 and 0x8000.
C5_DataReadyLow11Bits ==
    (call.op = "get_data_ready_status" /\ HasRead /\ bus[3].ok /\ GoodCrcAt(0)) =>
        /\ ret.kind = "Ok"
        /\ ret.val = (WordAt(0) % 2048 # 0)
        /\ WordAt(0) = 1 => ret.val = TRUE
        /\ WordAt(0) \in {0, 32768} => ret.val = FALSE

C5_Witness ==
    /\ call.op = "get_data_ready_status" /\ HasRead /\ bus[3].ok /\ GoodCrcAt(0)
    /\ WordAt(0) = 32768
    /\ ret.kind = "Ok" /\ ret.val = FALSE

\* C6: for every 9-byte response with valid checksums, read_serial returns
\* A * 2^32 + B * 2^16 + C, with A, B, C the big-endian words at bytes (0,1),
\* (3,4), (6,7): a value below 2^48 in which the checksum bytes have no part.
C6_SerialFromThreeWords ==
    (call.op = "read_serial" /\ HasRead /\ bus[3].ok
        /\ GoodCrcAt(0) /\ GoodCrcAt(3) /\ GoodCrcAt(6)) =>
        /\ ret.kind = "Ok"
        /\ U64Limb(ret.val, 3) = 0
        /\ U64Limb(ret.val, 2) = WordAt(0)
        /\ U64Limb(ret.val, 1) = WordAt(3)
        /\ U64Limb(ret.val, 0) = WordAt(6)

C6_Witness ==
    /\ call.op = "read_serial" /\ HasRead /\ ret.kind = "Ok"
    /\ Received = <<190, 239, 146, 0, 0, 129, 255, 255, 172>>
    /\ ret.val = <<255, 255, 0, 0, 239, 190, 0, 0>>

\* C7: for every 9-byte response with valid checksums, read_measurement
\* returns the word at bytes (0,1) unchanged as co2, a temperature that is a
\* function of the word at (3,4) alone and a humidity that is a function of the
\* word at (6,7) alone.
C7_MeasurementFromThreeWords ==
    (call.op = "read_measurement" /\ HasRead /\ bus[3].ok
        /\ GoodCrcAt(0) /\ GoodCrcAt(3) /\ GoodCrcAt(6)) =>
        /\ ret.kind = "Ok"
        /\ ret.val.co2 = WordAt(0)
        /\ ret.val.temperature = TemperatureOf(WordAt(3))
        /\ ret.val.humidity = HumidityOf(WordAt(6))

C7_Witness ==
    /\ call.op = "read_measurement" /\ HasRead /\ ret.kind = "Ok"
    /\ Received = <<190, 239, 146, 0, 0, 129, 255, 255, 172>>
    /\ ret.val.co2 = 48879

\* a word 0x0000 or 0xFFFF on the wire, with its checksum
BoundaryWordAt(i) ==
    SubSeq(Received, i + 1, i + 3) \in {<<0, 0, 129>>, <<255, 255, 172>>}

\* C8: read_measurement succeeds when every raw word is 0x0000 or 0xFFFF; a raw
\* temperature of 0x0000 gives exactly -45.0 and a raw humidity of 0x0000
\* exactly 0.0.
C8_MeasurementBoundaries ==
    (call.op = "read_measurement" /\ HasRead /\ bus[3].ok
        /\ BoundaryWordAt(0) /\ BoundaryWordAt(3) /\ BoundaryWordAt(6)) =>
        /\ ret.kind = "Ok"
        /\ ret.val.co2 \in {0, 65535}
        /\ WordAt(3) = 0 => ret.val.temperature = [sgn |-> 1, m |-> 11796480, e |-> -18]
        /\ WordAt(6) = 0 => ret.val.humidity = [sgn |-> 0, m |-> 0, e |-> 0]

C8_Witness ==
    /\ call.op = "read_measurement" /\ HasRead /\ ret.kind = "Ok"
    /\ Received = <<255, 255, 172, 0, 0, 129, 0, 0, 129>>
    /\ ret.val.temperature = [sgn |-> 1, m |-> 11796480, e |-> -18]
    /\ ret.val.humidity = [sgn |-> 0, m |-> 0, e |-> 0]

\* the sign of m / 2^k - p / q, by long division of p * 2^k by q
RECURSIVE DyadicCmpFrom(_, _, _, _, _)
DyadicCmpFrom(m, k, quo, rem, q) ==
    IF quo > m THEN -1
    ELSE IF k = 0 THEN (IF m > quo THEN 1 ELSE IF rem = 0 THEN 0 ELSE -1)
    ELSE DyadicCmpFrom(m, k - 1, 2 * quo + (IF 2 * rem >= q THEN 1 ELSE 0), (2 * rem) % q, q)

\* the sign of a - p / q for an f32 a >= 0 and integers 0 <= p < 2^31, 0 < q < 2^20
F32Cmp(a, p, q) ==
    IF a.e > 0 THEN 1 ELSE DyadicCmpFrom(a.m, 0 - a.e, p \div q, p % q, q)

\* an f32 offset in [0, 175]
InRange(a) == a.m = 0 \/ (a.sgn = 0 /\ F32Cmp(a, 175, 1) <= 0)

\* C9: set_temperature_offset issues exactly one bus write, of 5 bytes, and no
\* read: the command 0x241D big-endian, the two big-endian bytes of
\* raw = offset * 65535 / 175 (the single-precision product and quotient)
\* truncated to an integer, for offsets in [0, 175], and the checksum of
\* these two bytes.
C9_SetOffsetPayload ==
    call.op = "set_temperature_offset" =>
        /\ Len(bus) = 1
        /\ bus[1].ev = "write" /\ bus[1].addr = 98 /\ bus[1].len = 5
        /\ Len(bus[1].bytes) = 5
        /\ SubSeq(bus[1].bytes, 1, 2) = <<36, 29>>
        /\ bus[1].bytes[5] = Crc8Calculate(SubSeq(bus[1].bytes, 3, 4))
        /\ InRange(call.arg) =>
              LET raw == bus[1].bytes[3] * 256 + bus[1].bytes[4]
                  scaled == F32DivInt(F32MulInt(call.arg, 65535), 175)
              IN  /\ F32Cmp(scaled, raw, 1) >= 0
                  /\ F32Cmp(scaled, raw + 1, 1) < 0

C9_Witness ==
    /\ call.op = "set_temperature_offset"
    /\ call.arg = [sgn |-> 0, m |-> 8388608, e |-> -21]
    /\ bus = <<[ev |-> "write", addr |-> 98, bytes |-> <<36, 29, 5, 217, 122>>, len |-> 5,
               ok |-> TRUE, ms |-> 0, at |-> 0, until |-> 0]>>

\* 4 * a for an f32 a >= 0 that is a multiple of 1/4
Quarters(a) ==
    IF a.e + 2 >= 0 THEN a.m * 2^(a.e + 2) ELSE a.m \div 2^(0 - (a.e + 2))

\* C10: on the loopback stub, set_temperature_offset(x) followed by
\* get_temperature_offset succeeds and returns a value within 175/65535 of x,
\* for every x = n/4 in [0, 175], 4.0 among them.
C10_OffsetRoundTrip ==
    (call.op = "get_temperature_offset" /\ InRange(setArg)) =>
        /\ ret.kind = "Ok"
        /\ ret.val.sgn = 0
        /\ LET n == Quarters(setArg)
           IN  /\ F32Cmp(ret.val, n * 65535 + 700, 262140) <= 0
               /\ n * 65535 <= 700 \/ F32Cmp(ret.val, n * 65535 - 700, 262140) >= 0

C10_Witness ==
    /\ call.op = "get_temperature_offset"
    /\ setArg = [sgn |-> 0, m |-> 8388608, e |-> -21]
    /\ HasRead /\ SubSeq(Received, 1, 2) = <<5, 217>>
    /\ ret.kind = "Ok"

\* the words (1-based) of a response whose checksum byte does not match
BadWordsOf(bytes) ==
    {k \in 1..(Len(bytes) \div 3) :
        bytes[3 * k] # Crc8Calculate(<<bytes[3 * k - 2], bytes[3 * k - 1]>>)}

\* the results a reading function can return
ResultsOf(op) ==
    CASE op = "read_serial" -> ReadSerialRuns
      [] op = "get_data_ready_status" -> GetDataReadyStatusRuns
      [] op = "read_measurement" -> ReadMeasurementRuns
      [] op = "get_temperature_offset" -> GetTemperatureOffsetRuns
      [] OTHER -> {}

\* a reading function received a response from the transport
Answered == call.op \in ReadOps /\ HasRead /\ bus[3].ok

\* C11 as stated: a response with all checksums right never errors, and one
\* with a single corrupted checksum byte gives an error, with no value, that
\* identifies the failing word: no response failing at another word gives the
\* same result.
C11_CrcErrorIdentifiesWord ==
    Answered =>
        /\ BadWordsOf(Received) = {} => ret.kind = "Ok"
        /\ \A k \in 1..3 :
              BadWordsOf(Received) = {k} =>
                  /\ ret.kind = "Err" /\ ret.err \in {"I2cRead", "Crc"} /\ ret.val = <<>>
                  /\ \A r \in ResultsOf(call.op) :
                        (/\ Len(r.bus) = 3 /\ r.bus[3].ok
                         /\ Cardinality(BadWordsOf(r.bus[3].bytes)) = 1
                         /\ BadWordsOf(r.bus[3].bytes) # {k}) => r.res # ret

\* C11, amended: a response with all checksums right never errors; one with a
\* corrupted checksum byte, at whichever word, gives the checksum error Crc
\* (neither the write error nor the transport's read error) with no value and
\* nothing else: the word that failed is not in the result.
C11_CrcErrorNoValue ==
    Answered =>
        /\ BadWordsOf(Received) = {} => ret.kind = "Ok"
        /\ BadWordsOf(Received) # {} => ret = [kind |-> "Err", err |-> "Crc", val |-> <<>>]

C11_Witness ==
    /\ call.op = "read_measurement" /\ Answered
    /\ BadWordsOf(Received) = {2}
    /\ ret = [kind |-> "Err", err |-> "Crc", val |-> <<>>]

\* the length of the response to a command, in bytes; 0: no response is read
ResponseLen(command) ==
    CASE command = 13954 -> 9   \* 0x3682 read serial
      [] command = 60421 -> 9   \* 0xEC05 read measurement
      [] command = 58552 -> 3   \* 0xE4B8 data ready
      [] command = 8984  -> 3   \* 0x2318 get temperature offset
      [] OTHER -> 0

\* the write that precedes event i of the call, 0 if there is none
RECURSIVE WriteBefore(_)
WriteBefore(i) ==
    IF i <= 1 THEN 0
    ELSE IF bus[i - 1].ev = "write" THEN i - 1
    ELSE WriteBefore(i - 1)

\* C15: every bus read asks for a number of bytes that is a multiple of 3 and
\* is the table's length for the command written before it: 9 after 0x3682 and
\* 0xEC05, 3 after 0xE4B8 and 0x2318; wakeup, start, stop, reinit (clean_state
\* with them) and set_temperature_offset read nothing.
C15_ReadLengths ==
    /\ \A i \in 1..Len(bus) :
          bus[i].ev = "read" =>
              /\ bus[i].len % 3 = 0
              /\ WriteBefore(i) # 0
              /\ bus[WriteBefore(i)].ok
              /\ bus[i].len = ResponseLen(CommandOf(bus[WriteBefore(i)]))
    /\ call.op \notin ReadOps => Reads = <<>>
    /\ \A i \in 1..Len(bus) :
          (bus[i].ev = "write" /\ ResponseLen(CommandOf(bus[i])) = 0) =>
              \A k \in (i + 1)..Len(bus) : bus[k].ev = "read" => WriteBefore(k) # i

C15_Witness ==
    /\ call.op = "get_temperature_offset" /\ HasRead
    /\ CommandOf(bus[1]) = 8984
    /\ bus[3].len = 3

\* the raw word of a set_temperature_offset payload
RawWritten == bus[1].bytes[3] * 256 + bus[1].bytes[4]

\* C18 as stated: the conversion saturates and never wraps: a negative offset
\* writes 0x0000, one above 175 writes 0xFFFF, and an offset in [0, 175] writes
\* the floor of offset * 65535 / 175.
C18_SaturatingFloor ==
    call.op = "set_temperature_offset" =>
        /\ (call.arg.sgn = 1 /\ call.arg.m # 0) => RawWritten = 0
        /\ (call.arg.sgn = 0 /\ F32Cmp(call.arg, 175, 1) > 0) => RawWritten = 65535
        /\ InRange(call.arg) =>
              /\ F32Cmp(call.arg, RawWritten * 175, 65535) >= 0
              /\ F32Cmp(call.arg, (RawWritten + 1) * 175, 65535) < 0

\* C18, amended: the conversion saturates and never wraps: a negative offset
\* writes 0x0000, one above 175 writes 0xFFFF, and an offset in [0, 175] writes
\* the floor of the single-precision offset * 65535 / 175, which is the floor
\* of offset * 65535 / 175 or one more.
C18_SaturatingNearFloor ==
    call.op = "set_temperature_offset" =>
        /\ (call.arg.sgn = 1 /\ call.arg.m # 0) => RawWritten = 0
        /\ (call.arg.sgn = 0 /\ F32Cmp(call.arg, 175, 1) > 0) => RawWritten = 65535
        /\ InRange(call.arg) =>
              /\ RawWritten = 0 \/ F32Cmp(call.arg, (RawWritten - 1) * 175, 65535) >= 0
              /\ F32Cmp(call.arg, (RawWritten + 1) * 175, 65535) < 0

C18_Witness ==
    /\ call.op = "set_temperature_offset"
    /\ call.arg = [sgn |-> 0, m |-> 9642647, e |-> -16]
    /\ RawWritten = 55100

\* C12 as stated: the process ends only when the exporter cannot be installed
\* (not a matter of the sensor), the transport cannot be opened or the serial
\* number cannot be read; no other sensor operation's failure ends it.
C12_OnlyTwoFatal ==
    pc = "panicked" =>
        \/ call.op = "init_prometheus"
        \/ call.op \in {"init_raspi", "read_serial"} /\ ret.kind = "Err"

\* C12, amended: the sensor-related conditions that end the process are three
\* one-time startup failures: to open the transport, to read the serial number
\* and to start the periodic measurement; a failure of a clean-state step, of
\* the data-ready query or of the measurement read never ends it.
C12_ThreeFatal ==
    /\ pc = "panicked" =>
          \/ call.op = "init_prometheus" /\ ret.kind = "Err"
                /\ panic = "failed to install prometheus exporter"
          \/ call.op = "init_raspi" /\ ret.kind = "Err" /\ panic = "failed to init i2c"
          \/ call.op = "read_serial" /\ ret.kind = "Err"
                /\ panic = "failed to read serial from scd41"
          \/ call.op = "start_periodic_measurement" /\ ret.kind = "Err"
                /\ panic = "failed to start scd41"
    /\ call.op \in {"clean_state", "get_data_ready_status", "read_measurement", "sleep"} =>
          pc # "panicked"
    /\ (call.op \in {"init_raspi", "read_serial", "start_periodic_measurement"}
            /\ ret.kind = "Err") => pc = "panicked"

C12_Witness ==
    /\ pc = "panicked"
    /\ call.op = "start_periodic_measurement"
    /\ ret.kind = "Err"
    /\ panic = "failed to start scd41"

\* where main is inside its loop
PollPcs == {"poll_sleep", "poll_ready", "poll_measure"}

\* C13: once the loop is entered, no write, read or checksum error of the
\* data-ready query or of the measurement read makes it exit: every step taken
\* in the loop stays in the loop and ends nothing, a failed query or
\* measurement goes back to the top of the loop, and what follows the top of
\* the loop is a new iteration's data-ready query.
C13_LoopNeverExits ==
    [][/\ pc \in PollPcs => (pc' \in PollPcs /\ panic' = "")
       /\ (pc \in {"poll_ready", "poll_measure"} /\ ret'.kind = "Err") => pc' = "poll_sleep"
       /\ pc = "poll_sleep" => (pc' = "poll_ready" /\ cycle' = cycle + 1)
       /\ pc = "poll_ready" => (call'.op = "get_data_ready_status" /\ cycle' = cycle)]_vars

\* the first iteration's measurement failed (it was commanded and no gauge is
\* set) and the second iteration has made its query
C13_Witness ==
    /\ call.op = "get_data_ready_status" /\ cycle = 2
    /\ wire = <<14070, 16262, 13894, 13954, 8625, 58552, 60421, 58552>>
    /\ gauges.co2_ppm = <<>>
    /\ pc \in PollPcs

\* C14: in every iteration 0xEC05 is written only after that iteration's
\* 0xE4B8 query returned Ok(true); after a query that failed or returned
\* false the iteration ends without it.
C14_MeasureOnlyWhenReady ==
    /\ \A i \in 1..Len(wire) : wire[i] = 60421 => (i > 1 /\ wire[i - 1] = 58552)
    /\ call.op = "read_measurement" => is_ready = [kind |-> "Ok", err |-> "None", val |-> TRUE]
    /\ pc = "poll_measure" <=>
          (call.op = "get_data_ready_status" /\ ret = [kind |-> "Ok", err |-> "None", val |-> TRUE])
    /\ (call.op = "get_data_ready_status"
            /\ ret # [kind |-> "Ok", err |-> "None", val |-> TRUE]) =>
          (pc = "poll_sleep" /\ wire[Len(wire)] # 60421)

C14_Witness ==
    /\ call.op = "read_measurement" /\ cycle = 2
    /\ is_ready = [kind |-> "Ok", err |-> "None", val |-> TRUE]
    /\ SubSeq(wire, Len(wire) - 2, Len(wire)) = <<58552, 58552, 60421>>

\* the startup commands, in main's order
StartupCommands == <<14070, 16262, 13894, 13954, 8625>>
IsStartup(c) == \E i \in 1..Len(StartupCommands) : StartupCommands[i] = c

\* C16: over the whole run 0x36F6, 0x3F86, 0x3646, 0x3682, 0x21B1 are each
\* written at most once, in that order, all before the first 0xE4B8, and none
\* again once the loop has started.
C16_StartupOnceInOrder ==
    LET n == Len(SelectSeq(wire, IsStartup))
    IN  /\ n <= 5
        /\ SubSeq(wire, 1, n) = SubSeq(StartupCommands, 1, n)
        /\ (\E i \in 1..Len(wire) : wire[i] = 58552) => n = 5
        /\ pc \in PollPcs => n = 5

C16_Witness ==
    /\ pc = "poll_sleep" /\ cycle = 2
    /\ wire = StartupCommands \o <<58552, 60421, 58552>>

\* C17: the four gauges change only in the step of an iteration whose
\* read_measurement returned Ok, and then all four are set, from that
\* Measurement and that iteration's timestamp; in every other step, a failed
\* query, a false flag and a failed read_measurement among them, they keep
\* their values.
C17_GaugesSetTogether ==
    [][IF pc = "poll_measure" /\ ret'.kind = "Ok"
       THEN /\ call'.op = "read_measurement"
            /\ gauges' = [co2_ppm |-> <<ret'.val.co2>>,
                          temperature_celsius |-> <<ret'.val.temperature>>,
                          humidity_rh |-> <<ret'.val.humidity>>,
                          last_measured_timestamp_ms |-> <<timestamp>>]
            /\ timestamp \in {0, 1000 * cycle}
       ELSE gauges' = gauges]_vars

C17_Witness ==
    /\ call.op = "read_measurement" /\ ret.kind = "Ok" /\ cycle = 2
    /\ gauges.co2_ppm = <<48879>>
    /\ gauges.temperature_celsius = <<[sgn |-> 1, m |-> 11796480, e |-> -18]>>
    /\ gauges.humidity_rh = <<HumidityOf(65535)>>
    /\ gauges.last_measured_timestamp_ms = <<2000>>
====
